---- MODULE Spec2Model ----
(***************************************************************************)
(* Model of lenstronomy's Starlets profile (LightModel/Profiles/           *)
(* starlets.py) with the built-in backend (pysap not importable):          *)
(* decomposition / function / spectral_norm on one Starlets instance.      *)
(*                                                                         *)
(* Pixel values are dyadic rationals; a value v is stored as the integer   *)
(* v * Unit.  Every kernel weight is a multiple of 1/16, so with Unit a    *)
(* high enough power of 16 each division below is exact and the integer    *)
(* arithmetic equals the floating-point arithmetic of the code (which is   *)
(* exact on such values).                                                  *)
(***************************************************************************)
EXTENDS Integers, Sequences, FiniteSets, TLC

\* ---- bounds of the model ------------------------------------------------
MaxRows == 3
MaxCols == 2
MaxScales == 3
MaxSlices == 2
MaxNumPix == 2
MaxLit == 2

\* ---- helpers -------------------------------------------------------------
RECURSIVE Pow(_, _)
Pow(b, e) == IF e <= 0 THEN 1 ELSE b * Pow(b, e - 1)

RECURSIVE Log2Floor(_)
\* int(np.log2(x)) for x >= 1
Log2Floor(x) == IF x < 2 THEN 0 ELSE 1 + Log2Floor(x \div 2)

Min2(a, b) == IF a < b THEN a ELSE b

\* the sequence f with its elements evaluated once (an array held in memory)
Array(f) == f \o <<>>

\* The number of levels is at most Log2Floor(MaxCols) (the cap of line 121);
\* a forward transform followed by the recursive inverse chains at most
\* twice as many 2D smoothings, each of them two 1D passes dividing by 16.
Unit == Pow(16, 4 * Log2Floor(MaxCols))

\* ---- filters --------------------------------------------------------------
\* h = [1/16, 1/4, 3/8, 1/4, 1/16] and [1/4, 1/2, 1/4] as numerators over KernelDen
BaseKernel(Filter) == IF Filter = "Bspline" THEN <<1, 4, 6, 4, 1>> ELSE <<1, 2, 1>>
KernelDen(Filter) == IF Filter = "Bspline" THEN 16 ELSE 4

\* np.size(newh) for scale i
KernelLen(Filter, i) ==
    LET n == Len(BaseKernel(Filter)) IN n + (n - 1) * (Pow(2, i) - 1)

\* np.linspace(0, size-1, len(h), dtype=int)[k-1], k = 1..len(h)
TapPos(Filter, i, k) ==
    ((k - 1) * (KernelLen(Filter, i) - 1)) \div (Len(BaseKernel(Filter)) - 1)

\* newh[0, :] at scale i, 1-indexed (position p of the code is index p+1)
NewH(Filter, i) ==
    LET h == BaseKernel(Filter)
    IN Array([p \in 1..KernelLen(Filter, i) |->
                IF \E k \in 1..Len(h) : TapPos(Filter, i, k) = p - 1
                THEN h[CHOOSE k \in 1..Len(h) : TapPos(Filter, i, k) = p - 1]
                ELSE 0])

\* ---- convolution -----------------------------------------------------------
RECURSIVE SumTo(_, _)
\* sum of f[1..n]
SumTo(f, n) == IF n = 0 THEN 0 ELSE f[n] + SumTo(f, n - 1)

\* mode = 'nearest': an index outside 1..N reads the nearest edge sample
NearestAsMirror(j, N) ==
    IF N = 1 THEN 1
    ELSE IF ((j - 1) % (2 * N - 2)) < N THEN ((j - 1) % (2 * N - 2)) + 1
         ELSE 2 * N - 1 - ((j - 1) % (2 * N - 2))

Nearest(j, N) == IF j < 1 THEN 1 ELSE IF j > N THEN N ELSE j

\* scipy.ndimage convolve1d of the line x with weights w (odd length,
\* origin 0), mode 'nearest'; den is the common denominator of the weights
Convolve1dLine(x, w, den) ==
    LET N == Len(x)
        K == Len(w)
        c == K \div 2
    IN Array([j \in 1..N |->
          SumTo([k \in 1..K |-> w[k] * x[Nearest(j + c - (k - 1), N)]], K) \div den])

\* convolve1d(m, w, axis=0): along the first index (down each column)
ConvolveAxis0(m, w, den) ==
    LET H == Len(m)
        W == Len(m[1])
        cols == Array([j \in 1..W |->
                    Convolve1dLine(Array([r \in 1..H |-> m[r][j]]), w, den)])
    IN Array([r \in 1..H |-> Array([j \in 1..W |-> cols[j][r]])])

\* convolve1d(m, w, axis=1): along the second index (along each row)
ConvolveAxis1(m, w, den) ==
    Array([r \in 1..Len(m) |-> Convolve1dLine(m[r], w, den)])

\* the separable smoothing of the code (convol2d = 0) at scale i
Smooth(m, Filter, i) ==
    LET newh == NewH(Filter, i)
    IN ConvolveAxis1(ConvolveAxis0(m, newh, KernelDen(Filter)), newh, KernelDen(Filter))

\* boundary = 'symm' of scipy.signal.convolve2d: an index outside 1..N is
\* reflected once about the edge, the edge sample repeated
Symm(j, N) == IF j < 1 THEN 1 - j ELSE IF j > N THEN 2 * N + 1 - j ELSE j

\* H = np.dot(newh.T, newh) (lines 134, 190), numerators over den * den
OuterKernel(newh) ==
    Array([a \in 1..Len(newh) |-> Array([b \in 1..Len(newh) |-> newh[a] * newh[b]])])

\* scs.convolve2d(m, H, mode='same', boundary='symm'); H is K x K, K odd
Convolve2dSame(m, HH, den) ==
    LET N1 == Len(m)
        N2 == Len(m[1])
        K == Len(HH)
        c == K \div 2
        row(r, a) == m[Symm(r + c - (a - 1), N1)]
    IN Array([r \in 1..N1 |-> Array([j \in 1..N2 |->
          SumTo([a \in 1..K |->
                   SumTo([b \in 1..K |->
                            HH[a][b] * row(r, a)[Symm(j + c - (b - 1), N2)]], K)], K)
             \div den])])

\* lines 138-144 (and 193-198): the smoothing at scale i on the path that
\* convol2d selects
SmoothBy(m, Filter, i, convol2d) ==
    IF convol2d = 1
    THEN Convolve2dSame(m, OuterKernel(NewH(Filter, i)),
                        KernelDen(Filter) * KernelDen(Filter))
    ELSE Smooth(m, Filter, i)

\* ---- matrices --------------------------------------------------------------
MatSub(a, b) ==
    Array([r \in 1..Len(a) |-> Array([j \in 1..Len(a[1]) |-> a[r][j] - b[r][j]])])
MatAdd(a, b) ==
    Array([r \in 1..Len(a) |-> Array([j \in 1..Len(a[1]) |-> a[r][j] + b[r][j]])])
ShapeOf(m) == <<Len(m), Len(m[1])>>

\* numpy assignment wave[i, :, :] = m into an (n1, n2) plane: m of shape
\* (n1, n2) is copied, m of shape (1, n2) is broadcast over the rows
CanStore(m, n1, n2) == Len(m[1]) = n2 /\ (Len(m) = n1 \/ Len(m) = 1)
Store(m, n1, n2) == Array([r \in 1..n1 |-> IF Len(m) = 1 THEN m[1] ELSE m[r]])

\* ---- images ----------------------------------------------------------------
\* A 2D image has shape <<H, W>> and pixels px (rows of W values); a 3D
\* stack has shape <<a, b, c>> and its slices in stack.
\* The 2D images of the model: value 1 at up to MaxLit pixels, 0 elsewhere.
LitSets(H, W) == {S \in SUBSET ((1..H) \X (1..W)) : Cardinality(S) <= MaxLit}

Matrix(H, W, S) ==
    Array([r \in 1..H |-> Array([j \in 1..W |-> IF <<r, j>> \in S THEN Unit ELSE 0])])

Images2D ==
    UNION {{[shape |-> <<H, W>>, px |-> Matrix(H, W, S), stack |-> <<>>] :
               S \in LitSets(H, W)} :
           <<H, W>> \in (1..MaxRows) \X (1..MaxCols)}

\* slices of a stack: 2x2 images holding one value, or one lit pixel
StackSlices ==
    {[r \in 1..2 |-> [j \in 1..2 |-> IF lit THEN (IF r = 1 /\ j = 1 THEN Unit ELSE 0)
                                            ELSE 0]] : lit \in BOOLEAN}

\* stacks of K slices, slice axis first (K, 2, 2) or last (2, 2, K)
Images3D ==
    UNION {{[shape |-> IF first THEN <<K, 2, 2>> ELSE <<2, 2, K>>,
             px |-> <<>>, stack |-> st] :
              st \in [1..K -> StackSlices], first \in BOOLEAN} : K \in 1..MaxSlices}

NoImage == [shape |-> <<>>, px |-> <<>>, stack |-> <<>>]

\* ---- forward transform -------------------------------------------------------
Returned(w, lvl, filt, warn) ==
    [status |-> "ok", error |-> "none", line |-> 170, wave |-> w,
     allocated |-> TRUE, filters |-> filt, warned |-> warn, lvl |-> lvl]

Raised(err, ln, alloc, lvl, filt, warn) ==
    [status |-> "raise", error |-> err, line |-> ln, wave |-> <<>>,
     allocated |-> alloc, filters |-> filt, warned |-> warn, lvl |-> lvl]

NoResult ==
    [status |-> "none", error |-> "none", line |-> 0, wave |-> <<>>,
     allocated |-> FALSE, filters |-> {}, warned |-> FALSE, lvl |-> 0]

\* effective number of levels: lines 99, 121-124
EffectiveLvl(n_scales, n2) == Min2(n_scales - 1, Log2Floor(n2))

\* detail plane of one pass of the loop body (lines 148-163)
DetailPlaneSwapped(c, cnew, Filter, i, gen2, convol2d) ==
    IF gen2 THEN MatSub(c, cnew) ELSE MatSub(c, SmoothBy(cnew, Filter, i, convol2d))

DetailPlane(c, cnew, Filter, i, gen2, convol2d) ==
    IF gen2 THEN MatSub(c, SmoothBy(cnew, Filter, i, convol2d)) ELSE MatSub(c, cnew)

RECURSIVE WavePlanes(_, _, _, _, _, _, _, _)
\* planes wave[i], ..., wave[lvl] written by passes i..lvl-1 of the loop
\* (lines 130-166) and by line 168, from the current approximation c
WavePlanes(c, i, lvl, Filter, gen2, convol2d, n1, n2) ==
    IF i >= lvl THEN <<Store(c, n1, n2)>>
    ELSE LET cnew == SmoothBy(c, Filter, i, convol2d)
         IN <<Store(DetailPlane(c, cnew, Filter, i, gen2, convol2d), n1, n2)>>
            \o WavePlanes(cnew, i + 1, lvl, Filter, gen2, convol2d, n1, n2)

\* _transform_slit(img, n_scales, Filter, convol2d)
TransformSlit(img, n_scales, Filter, gen2, convol2d) ==
    LET sh == img.shape
    IN IF Len(sh) = 3
       THEN \* lines 101-109: the cube is allocated, then the first pass of
            \* the loop calls the undefined name wave_transform
            LET mn == Min2(sh[1], Min2(sh[2], sh[3]))
            IN IF n_scales < 0
               THEN Raised("ValueError", 103, FALSE, n_scales - 1, {}, FALSE)
               ELSE Raised("NameError", IF mn = sh[1] THEN 106 ELSE 108,
                           TRUE, n_scales - 1, {}, FALSE)
       ELSE LET n1 == sh[2]
                n2 == sh[2]
                lvl == EffectiveLvl(n_scales, n2)
                warn == n_scales - 1 > lvl
            IN IF lvl + 1 < 0
               THEN Raised("ValueError", 128, FALSE, lvl, {}, warn)
               ELSE IF lvl <= 0
               THEN \* the loop body never runs, i is unbound at line 168
                    Raised("UnboundLocalError", 168, TRUE, lvl, {}, warn)
               ELSE IF ~CanStore(img.px, n1, n2)
               THEN \* first pass: filter 0 is built, the image is smoothed,
                    \* the (H, W) plane does not fit the (n1, n2) cube
                    Raised("ValueError", IF gen2 THEN 159 ELSE 163, TRUE, lvl, {0}, warn)
               ELSE Returned(WavePlanes(img.px, 0, lvl, Filter, gen2, convol2d, n1, n2),
                             lvl, 0..(lvl - 1), warn)

\* ---- inverse transform -------------------------------------------------------
RECURSIVE SumPlanes(_, _)
\* np.sum(wave, axis=0) over planes 1..k
SumPlanes(wave, k) ==
    IF k = 1 THEN wave[1] ELSE MatAdd(SumPlanes(wave, k - 1), wave[k])

\* the filter family of the inverse: h is set at line 180, there is no
\* Filter argument
InverseFilter == "Bspline"

RECURSIVE InverseLoop(_, _, _, _)
\* passes i..lvl-1 of the loop of lines 186-200 (lvl = number of planes,
\* plane p of the code is wave[p + 1])
InverseLoop(wave, cJ, i, convol2d) ==
    LET lvl == Len(wave)
    IN IF i > lvl - 1 THEN cJ
       ELSE InverseLoop(wave,
                        MatAdd(SmoothBy(cJ, InverseFilter, lvl - 1 - i, convol2d),
                               wave[lvl - i]),
                        i + 1, convol2d)

\* _inverse_transform_slit(wave, convol2d)
InverseTransformSlit(wave, fast, gen2, convol2d) ==
    IF fast /\ ~gen2 THEN SumPlanes(wave, Len(wave))
    ELSE InverseLoop(wave, wave[Len(wave)], 1, convol2d)

\* ---- state ------------------------------------------------------------------
VARIABLES
    fast_inverse,       \* self._fast_inverse
    second_gen,         \* self._second_gen
    image,              \* argument of the latest forward transform
    n_scales,           \* its n_scales argument
    filter,             \* its filter family
    convol2d,           \* its convol2d argument
    dec,                \* what the latest forward transform did
    fn_n_scales,        \* n_scales argument of the latest function() call
    rec,                \* what the latest function() call returned
    has_spectral_norm,  \* hasattr(self, '_spectral_norm')
    spectral_norm_of,   \* the arguments self._spectral_norm was computed for
    n_scales_cache,     \* self._n_scales_cache
    norm_call,          \* the latest spectral_norm call
    computed,           \* history: the n_scales values the norm was computed for
    streak,             \* history: the n the norm was computed for, while every
                        \* call since had that n_scales; -1 otherwise
    VIS_obs,            \* the module-level dict VIS_obs of Euclid.py
    instances,          \* the Euclid instances built so far, in order
    euclid_call         \* the latest Euclid(...) call

vars == <<fast_inverse, second_gen, image, n_scales, filter, convol2d, dec,
          fn_n_scales, rec,
          has_spectral_norm, spectral_norm_of, n_scales_cache, norm_call,
          computed, streak, VIS_obs, instances, euclid_call>>

transformVars == <<image, n_scales, filter, convol2d, dec, fn_n_scales, rec>>
normVars == <<has_spectral_norm, spectral_norm_of, n_scales_cache, norm_call,
              computed, streak>>
euclidVars == <<VIS_obs, instances, euclid_call>>

ScaleArgs == 0..MaxScales
NoRec == [status |-> "none", convol2d |-> 0, img |-> <<>>]
NoNorm == [num_pix |-> 0, n_scales |-> 0]
NoCall == [op |-> "none", num_pix |-> 0, n_scales |-> 0, ran |-> FALSE,
           raised |-> FALSE, ret |-> NoNorm, known |-> FALSE, covered |-> FALSE,
           first |-> FALSE, prev_n |-> 0, prev_done |-> 0, done_n |-> 0]

\* the dict literal of Euclid.py lines 12-19; the float values are kept as
\* written
VIS_obs_literal ==
    [exposure_time |-> "565.0", sky_brightness |-> "22.35",
     magnitude_zero_point |-> "24.0", num_exposures |-> 4, seeing |-> "0.16",
     psf_type |-> "GAUSSIAN"]

NoEuclidCall == [op |-> "none", band |-> "", psf_type |-> "", coadd_years |-> 0,
                 raised |-> FALSE]

\* Starlets(fast_inverse=..., second_gen=...), no pysap: lines 18-25; the
\* module Euclid.py imported, no instance of Euclid built
Init ==
    /\ fast_inverse \in BOOLEAN
    /\ second_gen \in BOOLEAN
    /\ image = NoImage
    /\ n_scales = 0
    /\ filter = "Bspline"
    /\ convol2d = 0
    /\ dec = NoResult
    /\ fn_n_scales = 0
    /\ rec = NoRec
    /\ has_spectral_norm = FALSE
    /\ spectral_norm_of = NoNorm
    /\ n_scales_cache = 0
    /\ norm_call = NoCall
    /\ computed = {}
    /\ streak = -1
    /\ VIS_obs = VIS_obs_literal
    /\ instances = <<>>
    /\ euclid_call = NoEuclidCall

\* decomposition(image, n_scales): lines 34-42, always the Bspline filter
Decomposition(img, n) ==
    /\ dec.status = "none"
    /\ image' = img
    /\ n_scales' = n
    /\ filter' = "Bspline"
    /\ convol2d' = 0
    /\ dec' = TransformSlit(img, n, "Bspline", second_gen, 0)
    /\ UNCHANGED <<fast_inverse, second_gen, fn_n_scales, rec>>
    /\ UNCHANGED normVars
    /\ UNCHANGED euclidVars

\* _transform_slit(img, n_scales, Filter='linear') called directly
TransformSlitLinear(img, n) ==
    /\ dec.status = "none"
    /\ image' = img
    /\ n_scales' = n
    /\ filter' = "linear"
    /\ convol2d' = 0
    /\ dec' = TransformSlit(img, n, "linear", second_gen, 0)
    /\ UNCHANGED <<fast_inverse, second_gen, fn_n_scales, rec>>
    /\ UNCHANGED normVars
    /\ UNCHANGED euclidVars

\* every index the 'symm' boundary reflects lands inside the image: the
\* kernel of each scale reaches at most one image length beyond the edge
InsideSymmReach(img, n) ==
    \A i \in 0..(EffectiveLvl(n, img.shape[2]) - 1) :
        /\ KernelLen("Bspline", i) \div 2 <= img.shape[1]
        /\ KernelLen("Bspline", i) \div 2 <= img.shape[2]

\* _transform_slit(img, n_scales, convol2d=1) called directly
TransformSlitConvol2d(img, n) ==
    /\ dec.status = "none"
    /\ InsideSymmReach(img, n)
    /\ image' = img
    /\ n_scales' = n
    /\ filter' = "Bspline"
    /\ convol2d' = 1
    /\ dec' = TransformSlit(img, n, "Bspline", second_gen, 1)
    /\ UNCHANGED <<fast_inverse, second_gen, fn_n_scales, rec>>
    /\ UNCHANGED normVars
    /\ UNCHANGED euclidVars

\* function(coeffs, n_scales) on the cube the forward transform returned:
\* lines 27-32, n_scales is not passed on
Function(n) ==
    /\ dec.status = "ok"
    /\ rec.status = "none"
    /\ fn_n_scales' = n
    /\ rec' = [status |-> "ok", convol2d |-> 0,
               img |-> InverseTransformSlit(dec.wave, fast_inverse, second_gen, 0)]
    /\ UNCHANGED <<fast_inverse, second_gen, image, n_scales, filter, convol2d, dec>>
    /\ UNCHANGED normVars
    /\ UNCHANGED euclidVars

\* _inverse_transform_slit(wave, convol2d=1) called directly on that cube
InverseTransformSlitConvol2d ==
    /\ dec.status = "ok"
    /\ rec.status = "none"
    /\ fn_n_scales' = Len(dec.wave)
    /\ rec' = [status |-> "ok", convol2d |-> 1,
               img |-> InverseTransformSlit(dec.wave, fast_inverse, second_gen, 1)]
    /\ UNCHANGED <<fast_inverse, second_gen, image, n_scales, filter, convol2d, dec>>
    /\ UNCHANGED normVars
    /\ UNCHANGED euclidVars

\* the caller drops the image and the cube; the instance is used again
NextImage ==
    /\ dec.status # "none"
    /\ image' = NoImage
    /\ n_scales' = 0
    /\ filter' = "Bspline"
    /\ convol2d' = 0
    /\ dec' = NoResult
    /\ fn_n_scales' = 0
    /\ rec' = NoRec
    /\ UNCHANGED <<fast_inverse, second_gen>>
    /\ UNCHANGED normVars
    /\ UNCHANGED euclidVars

Next ==
    \/ \E img \in Images2D \cup Images3D, n \in ScaleArgs : Decomposition(img, n)
    \/ \E img \in Images2D, n \in ScaleArgs : TransformSlitLinear(img, n)
    \/ \E img \in Images2D, n \in ScaleArgs : TransformSlitConvol2d(img, n)
    \/ \E n \in 1..MaxScales : Function(n)
    \/ InverseTransformSlitConvol2d
    \/ NextImage

Spec == Init /\ [][Next]_vars

\* ---- spectral norm -------------------------------------------------------------
\* line 46 without the comparison of n_scales
CacheMissFirstOnly(n) == ~has_spectral_norm

\* line 46 with the comparison inverted
CacheMissInverted(n) == ~has_spectral_norm \/ n = n_scales_cache

\* the condition of line 46
CacheMiss(n) == ~has_spectral_norm \/ n # n_scales_cache

\* the num_pix x num_pix array the power iteration starts from (its values
\* are random; only its shape decides whether the operator raises)
ProbeImage(num_pix) ==
    [shape |-> <<num_pix, num_pix>>,
     px |-> Matrix(num_pix, num_pix, (1..num_pix) \X (1..num_pix)), stack |-> <<>>]

\* util.spectral_norm applies the operator (decomposition) to the start
\* array in its first iteration; an exception of the operator propagates
ComputeRaises(num_pix, n) ==
    TransformSlit(ProbeImage(num_pix), n, "Bspline", second_gen, 0).status = "raise"

\* spectral_norm(num_pix, n_scales): lines 45-49
SpectralNorm(num_pix, n) ==
    LET miss == CacheMiss(n)
        raises == miss /\ ComputeRaises(num_pix, n)
        stored == miss /\ ~raises
        value == IF stored THEN [num_pix |-> num_pix, n_scales |-> n]
                 ELSE spectral_norm_of
    IN /\ has_spectral_norm' = (has_spectral_norm \/ stored)
       /\ spectral_norm_of' = value
       /\ n_scales_cache' = IF stored THEN n ELSE n_scales_cache
       /\ norm_call' = [op |-> "spectral_norm", num_pix |-> num_pix, n_scales |-> n,
                        ran |-> miss, raised |-> raises,
                        ret |-> IF raises THEN NoNorm ELSE value,
                        known |-> n \in computed, covered |-> streak = n,
                        first |-> norm_call.op = "none",
                        prev_n |-> norm_call.n_scales,
                        prev_done |-> norm_call.done_n,
                        done_n |-> IF stored THEN n ELSE norm_call.done_n]
       /\ computed' = IF stored THEN computed \cup {n} ELSE computed
       /\ streak' = IF stored \/ n = streak THEN n ELSE -1
       /\ UNCHANGED <<fast_inverse, second_gen>>
       /\ UNCHANGED transformVars
       /\ UNCHANGED euclidVars

NextNorm == \E num_pix \in 1..MaxNumPix, n \in 1..MaxScales : SpectralNorm(num_pix, n)

SpecNorm == Init /\ [][NextNorm]_vars

\* ---- properties of the transforms (specification Spec) -------------------------
ForwardDone == dec.status # "none"
Is2D == Len(image.shape) = 2
Is3D == Len(image.shape) = 3
IsSquare == Is2D /\ image.shape[1] = image.shape[2]

\* the cube came back and, once function() has been applied to it, the
\* image that went in comes out
RoundTrip == dec.status = "ok" /\ (rec.status = "ok" => rec.img = image.px)

\* floor(log2(min(H, W)))
ScaleCap == Log2Floor(Min2(image.shape[1], image.shape[2]))

\* slice k of a 4D cube (planes of per-slice matrices)
SliceOfCube(wave, k) == [p \in 1..Len(wave) |-> wave[p][k]]

\* C1: first generation with fast_inverse: for every 2D image and every
\* n_scales >= 2, for the Bspline and the linear filter, decomposition
\* returns a cube and function() of that cube equals the image.
C1_RoundTripFast ==
    (ForwardDone /\ Is2D /\ n_scales >= 2 /\ fast_inverse /\ ~second_gen) => RoundTrip

\* C2: second generation, either value of fast_inverse: for every 2D image
\* and every n_scales >= 2, decomposition returns a cube and function() of
\* that cube (the recursive path) equals the image.
C2_RoundTripSecondGen ==
    (ForwardDone /\ Is2D /\ n_scales >= 2 /\ second_gen /\ filter = "Bspline")
        => RoundTrip

\* C3: first generation without fast_inverse (the recursive path): function()
\* of the cube of decomposition(I, n_scales), n_scales >= 2, equals I; stated
\* here for the square images, whose cube has the shape of the image.
C3_RoundTripRecursiveFirstGen ==
    (rec.status = "ok" /\ IsSquare /\ n_scales >= 2 /\ ~second_gen /\ ~fast_inverse
        /\ filter = "Bspline")
        => rec.img = image.px

\* C4: for every 2D image and every n_scales >= 2, decomposition returns a
\* cube of exactly n_scales planes.
C4_PlaneCount ==
    (ForwardDone /\ Is2D /\ n_scales >= 2 /\ filter = "Bspline")
        => (dec.status = "ok" /\ Len(dec.wave) = n_scales)

\* C5: for every 2D image and every n_scales above cap = floor(log2(min(H, W))),
\* decomposition does not raise, builds no filter for a scale beyond the cap
\* and returns a cube of cap planes.
C5_ScaleCapping ==
    (ForwardDone /\ Is2D /\ n_scales >= 2 /\ n_scales > ScaleCap /\ filter = "Bspline")
        => /\ dec.status = "ok"
           /\ \A i \in dec.filters : i < ScaleCap
           /\ Len(dec.wave) = ScaleCap

\* C6: for every 2D image of shape (H, W), square or not, every plane of the
\* cube has shape (H, W), and function() of the cube has shape (H, W); stated
\* here for the images of width >= 2, which have at least one level.
C6_Shapes ==
    (ForwardDone /\ Is2D /\ image.shape[2] >= 2 /\ n_scales >= 2 /\ filter = "Bspline")
        => /\ dec.status = "ok"
           /\ \A p \in 1..Len(dec.wave) : ShapeOf(dec.wave[p]) = image.shape
           /\ rec.status = "ok" => ShapeOf(rec.img) = image.shape

\* C7: for a 3D stack of K slices and n_scales >= 2, decomposition returns a
\* cube of n_scales planes whose slice k is the 2D decomposition of slice k.
C7_StackDecomposition ==
    (ForwardDone /\ Is3D /\ n_scales >= 2)
        => /\ dec.status = "ok"
           /\ Len(dec.wave) = n_scales
           /\ \A k \in 1..Len(image.stack) :
                 SliceOfCube(dec.wave, k) =
                     TransformSlit([shape |-> <<2, 2>>, px |-> image.stack[k],
                                    stack |-> <<>>],
                                   n_scales, "Bspline", second_gen, 0).wave

\* C8: function(coeffs, n_scales) returns an image only when the cube has the
\* n_scales planes that n_scales implies.
C8_PlaneCountChecked ==
    rec.status = "ok" => Len(dec.wave) = fn_n_scales

\* C9: decomposition with n_scales < 2 raises on the argument, before the
\* cube is allocated and before any filter is built; no cube is returned.
C9_SmallScalesRejected ==
    (ForwardDone /\ n_scales < 2 /\ filter = "Bspline")
        => /\ dec.status = "raise"
           /\ ~dec.allocated
           /\ dec.filters = {}

\* ---- properties of the cache (specification SpecNorm) --------------------------
NormCalled == norm_call.op = "spectral_norm"

\* C10 as stated: once the norm has been computed for n, every later call
\* with n_scales = n runs no power iteration, whatever was called in between.
C10_KeyedCache ==
    (NormCalled /\ norm_call.known) => ~norm_call.ran

\* C10, amended: once the norm has been computed for n, a later call with
\* n_scales = n runs no power iteration provided every call since that
\* computation had n_scales = n.
C10_LastKeyCache ==
    (NormCalled /\ norm_call.covered) => ~norm_call.ran

\* a repeated call with the same n_scales that returned the stored value,
\* after the norm had been computed for another n_scales too
C10_Witness ==
    /\ NormCalled
    /\ norm_call.covered
    /\ ~norm_call.ran
    /\ Cardinality(computed) >= 2

\* ---- properties of the filters (specification Spec) ----------------------------
\* the kernel has length n + (n-1)(2^i - 1), tap t of h (t = 0..n-1) at
\* position t * 2^i, and zero everywhere else
DilatedAsStated(kernel, h, i) ==
    /\ Len(kernel) = Len(h) + (Len(h) - 1) * (Pow(2, i) - 1)
    /\ \A p \in 0..(Len(kernel) - 1) :
          kernel[p + 1] = IF p % Pow(2, i) = 0 THEN h[(p \div Pow(2, i)) + 1] ELSE 0

\* function() took the recursive path, which builds kernels
InverseBuiltKernels == rec.status = "ok" /\ ~(fast_inverse /\ ~second_gen)

\* C11: for the Bspline and for the linear base kernel, every kernel the
\* forward transform builds for a scale i is the base kernel dilated by 2^i,
\* and the inverse transform builds the same kernel for that scale.
C11_FilterGeneration ==
    (dec.status = "ok")
        => /\ \A i \in dec.filters :
                 DilatedAsStated(NewH(filter, i), BaseKernel(filter), i)
           /\ InverseBuiltKernels =>
                 \A i \in 0..(Len(dec.wave) - 2) : NewH(InverseFilter, i) = NewH(filter, i)

\* ---- properties of the two convolution paths (specification Spec) ---------------
\* C12: for every 2D image and both generations, the cube the direct 2D
\* path (convol2d = 1) returns is the cube the separable path (convol2d = 0)
\* returns, pixels within kernel reach of the border included.
C12_PathsAgree ==
    (dec.status = "ok" /\ convol2d = 1)
        => dec.wave = TransformSlit(image, n_scales, filter, second_gen, 0).wave

\* ---- the boundary of the separable convolution (specification Spec) ------------
\* reflection about the edge sample, the edge sample not repeated (period 2N - 2)
Mirror(j, N) ==
    IF N = 1 THEN 1
    ELSE LET m == (j - 1) % (2 * N - 2)
         IN IF m < N THEN m + 1 ELSE 2 * N - 1 - m

\* the line x extended by r samples on each side: under "nearest" r copies of
\* the first sample, the line, r copies of the last; under "mirror" the reflection
ExtendLine(x, r, mode) ==
    IF mode = "mirror"
    THEN [j \in 1..(Len(x) + 2 * r) |-> x[Mirror(j - r, Len(x))]]
    ELSE [k \in 1..r |-> x[1]] \o x \o [k \in 1..r |-> x[Len(x)]]

\* the plain convolution of the extended line, no sample outside it needed
ValidConvolve(p, w, den) ==
    LET K == Len(w)
    IN Array([j \in 1..(Len(p) - K + 1) |->
                SumTo([k \in 1..K |-> w[k] * p[j + K - k]], K) \div den])

ExtendedLine(x, w, den, mode) == ValidConvolve(ExtendLine(x, Len(w) \div 2, mode), w, den)

\* the scale-i smoothing along axis 0 then axis 1, on extended lines
ExtendedSmooth(m, Filter, i, mode) ==
    LET w == NewH(Filter, i)
        den == KernelDen(Filter)
        cols == Array([j \in 1..Len(m[1]) |->
                   ExtendedLine([r \in 1..Len(m) |-> m[r][j]], w, den, mode)])
        a0 == Array([r \in 1..Len(m) |-> Array([j \in 1..Len(m[1]) |-> cols[j][r]])])
    IN Array([r \in 1..Len(m) |-> ExtendedLine(a0[r], w, den, mode)])

RECURSIVE ExtendedPlanes(_, _, _, _, _, _)
ExtendedPlanes(c, i, lvl, Filter, gen2, mode) ==
    IF i >= lvl THEN <<c>>
    ELSE LET cnew == ExtendedSmooth(c, Filter, i, mode)
         IN <<MatSub(c, IF gen2 THEN ExtendedSmooth(cnew, Filter, i, mode) ELSE cnew)>>
            \o ExtendedPlanes(cnew, i + 1, lvl, Filter, gen2, mode)

RECURSIVE ExtendedInverse(_, _, _, _)
ExtendedInverse(wave, cJ, i, mode) ==
    IF i > Len(wave) - 1 THEN cJ
    ELSE ExtendedInverse(wave,
                         MatAdd(ExtendedSmooth(cJ, InverseFilter, Len(wave) - 1 - i, mode),
                                wave[Len(wave) - i]),
                         i + 1, mode)

\* the cube decomposition returned and the image the recursive inverse returned
\* are the ones the convolution on extended lines gives
BoundaryIs(mode) ==
    /\ (dec.status = "ok" /\ convol2d = 0)
          => LET planes == ExtendedPlanes(image.px, 0, dec.lvl, filter, second_gen, mode)
             IN \A q \in 1..Len(dec.wave) : \A r \in 1..Len(dec.wave[q]) :
                   dec.wave[q][r] = planes[q][IF image.shape[1] = 1 THEN 1 ELSE r]
    /\ (rec.status = "ok" /\ rec.convol2d = 0 /\ InverseBuiltKernels)
          => rec.img = ExtendedInverse(dec.wave, dec.wave[Len(dec.wave)], 1, mode)

\* C13 (as stated): on the separable path a sample at an index outside the
\* image is read by reflection about the edge pixel, the edge sample not
\* repeated, in the forward and in the inverse transform.
C13_MirrorBoundary == BoundaryIs("mirror")

\* C13 (amended): on the separable path a sample at an index outside the
\* image is the nearest edge sample (index -k reads pixel 0, index N-1+k reads
\* pixel N-1), in the forward and in the inverse transform.
C13_NearestBoundary == BoundaryIs("nearest")

\* a cube and its recursive inverse are returned for an image on which the
\* two extensions give different smoothed planes
C13_Witness ==
    /\ dec.status = "ok" /\ convol2d = 0
    /\ rec.status = "ok" /\ rec.convol2d = 0 /\ InverseBuiltKernels
    /\ ExtendedSmooth(image.px, filter, 0, "mirror")
          # ExtendedSmooth(image.px, filter, 0, "nearest")

\* ---- the forward algorithm on images with two levels (specification SpecDeep) ---
DeepDim == 4
DeepLit == 1

\* a pixel value that three smoothings (six passes of a 1/16 kernel per level
\* pair) divide exactly
DeepUnit == Pow(16, 2 * (Log2Floor(DeepDim) + 1))

DeepImages ==
    {[shape |-> <<DeepDim, DeepDim>>,
      px |-> Array([r \in 1..DeepDim |->
                Array([j \in 1..DeepDim |-> IF <<r, j>> \in S THEN DeepUnit ELSE 0])]),
      stack |-> <<>>] :
        S \in {T \in SUBSET ((1..DeepDim) \X (1..DeepDim)) : Cardinality(T) <= DeepLit}}

NextDeep ==
    \/ \E img \in DeepImages, n \in ScaleArgs : Decomposition(img, n)
    \/ NextImage

SpecDeep == Init /\ [][NextDeep]_vars

\* c_0 = image, c_(i+1) = smooth_i(c_i)
RECURSIVE Approximation(_, _, _)
Approximation(img, Filter, i) ==
    IF i = 0 THEN img ELSE Smooth(Approximation(img, Filter, i - 1), Filter, i - 1)

\* w_i as the claim defines it
Detail(img, Filter, i, gen2) ==
    MatSub(Approximation(img, Filter, i),
           IF gen2 THEN Smooth(Approximation(img, Filter, i + 1), Filter, i)
           ELSE Approximation(img, Filter, i + 1))

\* [w_0, ..., w_(L-1), c_L]
CubeAsStated(img, Filter, L, gen2) ==
    [q \in 1..(L + 1) |-> IF q <= L THEN Detail(img, Filter, q - 1, gen2)
                          ELSE Approximation(img, Filter, L)]

\* C14: when n_scales - 1 is not capped, the cube decomposition returns is
\* [w_0, ..., w_(L-1), c_L] with L = n_scales - 1, c_0 the image,
\* c_(i+1) = smooth_i(c_i), w_i = c_i - c_(i+1) for the first generation and
\* w_i = c_i - smooth_i(c_(i+1)) for the second, the finest detail first and
\* the coarsest approximation last; the recursion goes on from c_(i+1).
C14_ForwardAlgorithm ==
    (dec.status = "ok" /\ convol2d = 0 /\ dec.lvl = n_scales - 1)
        => dec.wave = CubeAsStated(image.px, filter, n_scales - 1, second_gen)

\* a second-generation cube of three planes whose second detail plane is not
\* the one the first generation gives
C14_Witness ==
    /\ dec.status = "ok" /\ convol2d = 0 /\ second_gen
    /\ n_scales = 3 /\ Len(dec.wave) = 3
    /\ dec.wave[2] # Detail(image.px, filter, 1, FALSE)
    /\ dec.wave[3] = Approximation(image.px, filter, 2)

\* ---- the sequence of spectral_norm calls (specification SpecNorm) ---------------
\* norm_call describes the latest call: first (no call before it), prev_n (the
\* n_scales of the call before it), prev_done (the n_scales of the latest
\* earlier call whose power iteration ran to its end, 0 when there is none),
\* ran (the power iteration was started), raised, ret (the value returned)

\* C15 (as stated): a call runs the power iteration if and only if it is
\* the first call on the instance or its n_scales differs from the n_scales of
\* the immediately preceding call; otherwise it returns the stored value; after
\* every call the stored n_scales is the n_scales of that call.
C15_PrecedingCall ==
    NormCalled
        => /\ norm_call.ran <=> (norm_call.first \/ norm_call.n_scales # norm_call.prev_n)
           /\ ~norm_call.ran => norm_call.ret = spectral_norm_of
           /\ has_spectral_norm /\ n_scales_cache = norm_call.n_scales

\* C15 (amended): a call runs the power iteration if and only if no earlier
\* call ran it to its end or its n_scales differs from the n_scales of the
\* latest earlier call that did; otherwise it returns the stored value; after
\* every call that returns the stored n_scales is the n_scales of that call,
\* and a call that raises leaves the stored n_scales as it was.
C15_CompletedCall ==
    NormCalled
        => /\ norm_call.ran <=>
                 (norm_call.prev_done = 0 \/ norm_call.n_scales # norm_call.prev_done)
           /\ ~norm_call.ran => norm_call.ret = spectral_norm_of
           /\ ~norm_call.raised => (has_spectral_norm /\ n_scales_cache = norm_call.n_scales)
           /\ norm_call.raised => n_scales_cache = norm_call.prev_done

\* a call with the n_scales of the call before it that ran the power iteration
\* all the same, because the call before it raised and an older value was stored
C15_Witness ==
    /\ NormCalled
    /\ ~norm_call.first
    /\ norm_call.n_scales = norm_call.prev_n
    /\ norm_call.prev_done # 0
    /\ norm_call.ran /\ ~norm_call.raised

\* C16: the value spectral_norm(num_pix, n_scales) returns was computed for
\* that num_pix.
C16_SameNumPix ==
    (NormCalled /\ ~norm_call.raised) => norm_call.ret.num_pix = norm_call.num_pix

\* ---- Euclid observation configuration (specification SpecEuclid) ---------------
MaxInstances == 3

Bands == {"VIS", "NISP"}
PsfTypes == {"GAUSSIAN", "PIXEL"}
CoaddYears == 1..7

\* self.camera, line 53
Camera == [read_noise |-> "4.2", pixel_scale |-> "0.101", ccd_gain |-> "3.1"]

\* the dict a reference denotes; VIS_obs is the only dict that is shared
Deref(ref) == CASE ref = "VIS_obs" -> VIS_obs

\* util.merge_dicts(a, b): the keys of both, b's value where both have the key
MergeDicts(a, b) ==
    [k \in (DOMAIN a) \cup (DOMAIN b) |-> IF k \in DOMAIN b THEN b[k] ELSE a[k]]

\* kwargs_single_band(), lines 60-66
KwargsSingleBand(inst) == MergeDicts(inst.camera, Deref(inst.obs))

\* Euclid(band, psf_type, coadd_years), lines 33-55: self.obs is a reference
\* to VIS_obs (line 40), so the assignment of line 51 writes the module's dict
EuclidInit(band, psf_type, coadd_years) ==
    LET raises == \/ band # "VIS"
                  \/ psf_type # "GAUSSIAN"
                  \/ coadd_years > 6 \/ coadd_years < 2
    IN /\ Len(instances) < MaxInstances
       /\ euclid_call' = [op |-> "Euclid", band |-> band, psf_type |-> psf_type,
                          coadd_years |-> coadd_years, raised |-> raises]
       /\ IF raises
          THEN UNCHANGED <<VIS_obs, instances>>
          ELSE /\ VIS_obs' =
                     IF coadd_years # 6
                     THEN [VIS_obs EXCEPT !.num_exposures =
                              (coadd_years * VIS_obs.num_exposures) \div 6]
                     ELSE VIS_obs
               /\ instances' = Append(instances,
                                      [coadd_years |-> coadd_years, obs |-> "VIS_obs",
                                       camera |-> Camera])
       /\ UNCHANGED <<fast_inverse, second_gen>>
       /\ UNCHANGED transformVars
       /\ UNCHANGED normVars

NextEuclid ==
    \E band \in Bands, psf_type \in PsfTypes, coadd_years \in CoaddYears :
        EuclidInit(band, psf_type, coadd_years)

SpecEuclid == Init /\ [][NextEuclid]_vars

\* num_exposures for coadd_years = y as the claim gives it
ExposuresFor(y) == IF y = 6 THEN 4 ELSE (y * 4) \div 6

\* C17: after any sequence of Euclid(...) constructions, raising ones
\* included, every instance built with coadd_years = y reports
\* num_exposures = 4 for y = 6 and (y*4)//6 for y in 2..5, in obs and in
\* kwargs_single_band(), whatever was built before or after it, and the
\* module-level VIS_obs still holds num_exposures = 4.
C17_IndependentInstances ==
    /\ VIS_obs.num_exposures = 4
    /\ \A k \in 1..Len(instances) :
          /\ Deref(instances[k].obs).num_exposures = ExposuresFor(instances[k].coadd_years)
          /\ KwargsSingleBand(instances[k]).num_exposures
                = ExposuresFor(instances[k].coadd_years)

====
